---- MODULE Spec2Model ----
(***************************************************************************)
(* A model of maggma: the Store contract (connection state, upsert by a    *)
(* possibly composite key, query / query_one / distinct / groupby), the    *)
(* dot-path utilities of maggma/utils.py (get_mongolike, recursive_update, *)
(* substitute, unset), the last-updated codec                              *)
(* (dt_to_isoformat_ceil_ms, isostr_to_dt) and the connect and finalize    *)
(* of maggma/builder.py.                                                   *)
(*                                                                         *)
(* maggma/stores.py and maggma/advanced_stores.py are not part of the      *)
(* sources at hand (only their tests are), so the Store operations and     *)
(* the Aliasing Store's use of substitute are modelled from the            *)
(* specification; everything else is translated from maggma/utils.py and   *)
(* maggma/builder.py.                                                      *)
(***************************************************************************)
EXTENDS Integers, Sequences, FiniteSets, TLC

VARIABLES
    connected,   \* Store: the collection handle is not None
    collection,  \* Store: the backend's documents, in insertion order
    now,         \* Store: the clock, in microseconds
    last,        \* Store: the last call, its arguments and its outcome
    overrode,    \* Store: some successful update call overrode the key
    lu,          \* codec: a datetime, its ISO string, the datetime read back
    pu,          \* path utilities: the call under way, its arguments and outcome
    builder      \* Builder: its Stores, the cursor of get_items, the last call

storeVars == <<connected, collection, now, last, overrode>>

utilVars == <<lu, pu, builder>>

vars == <<connected, collection, now, last, overrode, lu, pu, builder>>

(***************************************************************************)
(* Bounds of the model.                                                    *)
(***************************************************************************)
MaxDocs == 2        \* documents a collection holds at most
MaxTicks == 1       \* clock ticks at most
MaxGroupDocs == 4   \* documents of a collection handed to groupby
MaxSeconds == 1     \* seconds part of a datetime handed to the codec
MaxKeyLen == 5      \* characters of a dotted key handed to get_mongolike
MaxDepth == 3       \* nesting of a document handed to unset
MaxAliasDepth == 2  \* nesting of a document handed to the alias translation
MaxMergeDepth == 3  \* nesting of a dict handed to recursive_update

(***************************************************************************)
(* Last-updated codec: LU_KEY_ISOFORMAT = (isostr_to_dt,                   *)
(* dt_to_isoformat_ceil_ms).  A datetime is a count of microseconds; an    *)
(* ISO string is its seconds part and the digits of its fraction.          *)
(***************************************************************************)
MicrosPerMilli == 1000
MicrosPerSecond == 1000000

\* "%03d" % n: the three decimal digits of n < 1000
Digits3(n) == << n \div 100, (n \div 10) % 10, n % 10 >>

\* datetime.isoformat(timespec='milliseconds'): the microsecond is
\* truncated to milliseconds and printed on three digits
isoformat_ms(dt) ==
    [ secs |-> dt \div MicrosPerSecond,
      frac |-> Digits3((dt % MicrosPerSecond) \div MicrosPerMilli) ]

\* timedelta(milliseconds=1)
timedelta_ms == MicrosPerMilli

\* an encoder that truncates and adds nothing
dt_to_isoformat_floor_ms(dt) == isoformat_ms(dt)

dt_to_isoformat_ceil_ms(dt) == isoformat_ms(dt + timedelta_ms)

\* strptime's %f: one to six digits, read as the leading digits of the
\* microsecond (right-padded with zeros)
RECURSIVE ParseFraction(_, _)
ParseFraction(ds, width) ==
    IF width = 0 THEN 0
    ELSE LET d == IF ds = <<>> THEN 0 ELSE Head(ds)
             rest == IF ds = <<>> THEN <<>> ELSE Tail(ds)
             scale == CASE width = 6 -> 100000 [] width = 5 -> 10000
                        [] width = 4 -> 1000 [] width = 3 -> 100
                        [] width = 2 -> 10 [] OTHER -> 1
         IN d * scale + ParseFraction(rest, width - 1)

\* the second pattern, "%Y-%m-%dT%H:%M:%S", serves a string with no fraction
isostr_to_dt(s) ==
    IF s.frac = <<>> THEN s.secs * MicrosPerSecond
    ELSE s.secs * MicrosPerSecond + ParseFraction(s.frac, 6)

(***************************************************************************)
(* Store (specification section 4.2).                                      *)
(***************************************************************************)
DefaultKey == "task_id"
LuField == "_lu"
Fields == {"task_id", "d", "f"}
Values == {1, 2}

\* documents handed to update: two that share task_id and differ in d, two
\* that share (d, f) and differ in task_id, and one that carries neither
\* task_id nor d
InputDocs ==
    { [task_id |-> 1, d |-> 1, f |-> 1], [task_id |-> 1, d |-> 2, f |-> 1],
      [task_id |-> 2, d |-> 1, f |-> 1], [f |-> 2] }

\* the docs argument of update: one document, or the two that share task_id
UpdateArgs ==
    { <<d>> : d \in InputDocs } \cup
    { << [task_id |-> 1, d |-> 1, f |-> 1], [task_id |-> 1, d |-> 2, f |-> 1] >> }

\* the key argument of update: <<>> is "no override" (key=None)
KeyArgs == { <<>>, <<"d">>, <<"d", "f">> }

NoCriteria == [x \in {} |-> 0]
CriteriaArgs == { NoCriteria, [f |-> 1] }

GroupFields == { <<"d">>, <<"f", "d">> }

\* key if key else self.key
KeyFields(key) == IF key = <<>> THEN <<DefaultKey>> ELSE key

HasFields(doc, kf) == \A i \in 1..Len(kf) : kf[i] \in DOMAIN doc

\* a match on any one of the listed key fields
KeyMatches_AnyField(doc, d, kf) ==
    \E i \in 1..Len(kf) : kf[i] \in DOMAIN doc /\ doc[kf[i]] = d[kf[i]]

\* equality on all the listed key fields
KeyMatches(doc, d, kf) ==
    \A i \in 1..Len(kf) : kf[i] \in DOMAIN doc /\ doc[kf[i]] = d[kf[i]]

\* a lookup that never finds the document
FirstMatch_None(coll, d, kf) == 0

FirstMatch(coll, d, kf) ==
    IF \E i \in 1..Len(coll) : KeyMatches(coll[i], d, kf)
    THEN CHOOSE i \in 1..Len(coll) :
            /\ KeyMatches(coll[i], d, kf)
            /\ \A j \in 1..(i - 1) : ~KeyMatches(coll[j], d, kf)
    ELSE 0

\* update_lu: stamp the last-updated field with the current time, encoded
\* by lu_func[1]
Stamp(d, update_lu, t) ==
    IF update_lu
    THEN [x \in (DOMAIN d) \cup {LuField} |->
            IF x = LuField THEN dt_to_isoformat_ceil_ms(t) ELSE d[x]]
    ELSE d

\* an insert that never looks for the document
Upsert_Insert(coll, d, kf, update_lu, t) == Append(coll, Stamp(d, update_lu, t))

\* find-or-create the document whose key fields equal d's, and replace it
Upsert(coll, d, kf, update_lu, t) ==
    LET i == FirstMatch(coll, d, kf)
    IN IF i = 0 THEN Append(coll, Stamp(d, update_lu, t))
       ELSE [coll EXCEPT ![i] = Stamp(d, update_lu, t)]

RECURSIVE UpsertAll(_, _, _, _, _)
UpsertAll(coll, docs, kf, update_lu, t) ==
    IF docs = <<>> THEN coll
    ELSE UpsertAll(Upsert(coll, Head(docs), kf, update_lu, t),
                   Tail(docs), kf, update_lu, t)

\* a criteria of equalities on fields
Satisfies(doc, criteria) ==
    \A x \in DOMAIN criteria : x \in DOMAIN doc /\ doc[x] = criteria[x]

Project(doc, properties) ==
    IF properties = {} THEN doc
    ELSE [x \in (DOMAIN doc) \cap properties |-> doc[x]]

RECURSIVE Matching(_, _)
Matching(coll, criteria) ==
    IF coll = <<>> THEN <<>>
    ELSE IF Satisfies(Head(coll), criteria)
         THEN <<Head(coll)>> \o Matching(Tail(coll), criteria)
         ELSE Matching(Tail(coll), criteria)

query(coll, criteria, properties) ==
    LET m == Matching(coll, criteria)
    IN [i \in 1..Len(m) |-> Project(m[i], properties)]

\* the first match, or nothing: <<>> is None
query_one(coll, criteria, properties) ==
    LET q == query(coll, criteria, properties)
    IN IF q = <<>> THEN <<>> ELSE <<Head(q)>>

RECURSIVE SortedSeq(_)
SortedSeq(S) ==
    IF S = {} THEN <<>>
    ELSE LET m == CHOOSE x \in S : \A y \in S : x <= y
         IN <<m>> \o SortedSeq(S \ {m})

\* distinct of one field: the sorted, deduplicated values observed
distinct(coll, field, criteria) ==
    LET m == Matching(coll, criteria)
    IN SortedSeq({ m[i][field] : i \in { j \in 1..Len(m) : field \in DOMAIN m[j] } })

\* a group _id made of the first field alone
GroupId_FirstField(doc, gf) ==
    [x \in {gf[1]} \cap DOMAIN doc |-> doc[x]]

\* the _id of a document's group: the document's values of the fields
GroupId(doc, gf) ==
    [x \in { gf[i] : i \in 1..Len(gf) } \cap DOMAIN doc |-> doc[x]]

RECURSIVE GroupIds(_, _)
GroupIds(m, gf) ==
    IF m = <<>> THEN <<>>
    ELSE LET rest == GroupIds(Tail(m), gf)
             id == GroupId(Head(m), gf)
         IN IF \E i \in 1..Len(rest) : rest[i] = id
            THEN rest ELSE <<id>> \o rest

RECURSIVE DocsOfGroup(_, _, _)
DocsOfGroup(m, gf, id) ==
    IF m = <<>> THEN <<>>
    ELSE IF GroupId(Head(m), gf) = id
         THEN <<Head(m)>> \o DocsOfGroup(Tail(m), gf, id)
         ELSE DocsOfGroup(Tail(m), gf, id)

groupby(coll, gf, criteria) ==
    LET m == Matching(coll, criteria)
        ids == GroupIds(m, gf)
    IN [i \in 1..Len(ids) |->
          [_id |-> ids[i], docs |-> DocsOfGroup(m, gf, ids[i])]]

(***************************************************************************)
(* Store: the calls.                                                       *)
(***************************************************************************)
StoreInit ==
    /\ connected = FALSE
    /\ collection = <<>>
    /\ now = 0
    /\ last = [op |-> "init", err |-> "none"]
    /\ overrode = FALSE

\* time passes between calls, a millisecond at a time
Tick ==
    /\ now + MicrosPerMilli <= MaxTicks * MicrosPerMilli
    /\ now' = now + MicrosPerMilli
    /\ UNCHANGED <<connected, collection, last, overrode>>
    /\ UNCHANGED utilVars

connect ==
    /\ connected' = TRUE
    /\ last' = [op |-> "connect", err |-> "none"]
    /\ UNCHANGED <<collection, now, overrode>>
    /\ UNCHANGED utilVars

\* the backend is unreachable: the error reaches the caller, nothing is retried
connectFails ==
    /\ ~connected
    /\ last' = [op |-> "connect", err |-> "ConnectionError"]
    /\ UNCHANGED <<connected, collection, now, overrode>>
    /\ UNCHANGED utilVars

\* a disconnected Store that answers as if nothing were wrong
NotConnected_Silent(op) ==
    /\ ~connected
    /\ last' = [op |-> op, err |-> "none"]
    /\ UNCHANGED <<connected, collection, now, overrode>>
    /\ UNCHANGED utilVars

NotConnected(op) ==
    /\ ~connected
    /\ last' = [op |-> op, err |-> "NotConnected"]
    /\ UNCHANGED <<connected, collection, now, overrode>>
    /\ UNCHANGED utilVars

\* history: the documents of the call before, when that was a successful
\* update under the same key
PrevDocs(kf) ==
    IF last.op = "update" /\ last.err = "none" /\ last.update_key = kf
    THEN last.update_docs ELSE <<>>

update(docs, key, update_lu) ==
    \/ NotConnected("update")
    \/ /\ connected
       /\ \E i \in 1..Len(docs) : ~HasFields(docs[i], KeyFields(key))
       /\ last' = [op |-> "update", err |-> "KeyNotFound"]
       /\ UNCHANGED <<connected, collection, now, overrode>>
       /\ UNCHANGED utilVars
    \/ /\ connected
       /\ \A i \in 1..Len(docs) : HasFields(docs[i], KeyFields(key))
       /\ LET c == UpsertAll(collection, docs, KeyFields(key), update_lu, now)
          IN /\ Len(c) <= MaxDocs
             /\ collection' = c
       /\ last' = [op |-> "update", err |-> "none", update_docs |-> docs,
                   update_key |-> KeyFields(key), update_lu |-> update_lu,
                   update_prev |-> PrevDocs(KeyFields(key))]
       /\ overrode' = (overrode \/ KeyFields(key) # <<DefaultKey>>)
       /\ UNCHANGED <<connected, now>>
       /\ UNCHANGED utilVars

Query(criteria, properties) ==
    \/ NotConnected("query")
    \/ /\ connected
       /\ last' = [op |-> "query", err |-> "none", query_criteria |-> criteria,
                   query_ret |-> query(collection, criteria, properties)]
       /\ UNCHANGED <<connected, collection, now, overrode>>
       /\ UNCHANGED utilVars

QueryOne(criteria, properties) ==
    \/ NotConnected("query_one")
    \/ /\ connected
       /\ last' = [op |-> "query_one", err |-> "none",
                   query_one_ret |-> query_one(collection, criteria, properties)]
       /\ UNCHANGED <<connected, collection, now, overrode>>
       /\ UNCHANGED utilVars

Distinct(field, criteria) ==
    \/ NotConnected("distinct")
    \/ /\ connected
       /\ last' = [op |-> "distinct", err |-> "none",
                   distinct_ret |-> distinct(collection, field, criteria)]
       /\ UNCHANGED <<connected, collection, now, overrode>>
       /\ UNCHANGED utilVars

GroupBy(gf, criteria) ==
    \/ NotConnected("groupby")
    \/ /\ connected
       /\ last' = [op |-> "groupby", err |-> "none", groupby_fields |-> gf,
                   groupby_criteria |-> criteria,
                   groupby_ret |-> groupby(collection, gf, criteria)]
       /\ UNCHANGED <<connected, collection, now, overrode>>
       /\ UNCHANGED utilVars

Next ==
    \/ Tick
    \/ connect
    \/ connectFails
    \/ \E docs \in UpdateArgs, key \in KeyArgs, update_lu \in BOOLEAN :
          update(docs, key, update_lu)
    \/ Query(NoCriteria, {})
    \/ QueryOne(NoCriteria, {"f"})
    \/ Distinct("d", NoCriteria)
    \/ GroupBy(<<"d">>, NoCriteria)

NoBuilder == builder = [op |-> "none"]

UtilIdle == lu = [stage |-> "idle"] /\ pu = [op |-> "idle"] /\ NoBuilder

Init == StoreInit /\ UtilIdle

Spec == Init /\ [][Next]_vars

(***************************************************************************)
(* groupby over the collections a connected Store can hold.                *)
(***************************************************************************)
\* documents of the collection: f always, d or not
GroupDocs == UNION { [S -> Values] : S \in {{"f"}, {"d", "f"}} }

SeqsUpTo(S, n) == UNION { [1..k -> S] : k \in 0..n }

GroupInit ==
    /\ \/ /\ connected = TRUE
          /\ collection \in SeqsUpTo(GroupDocs, MaxGroupDocs)
          /\ last = [op |-> "connect", err |-> "none"]
       \/ /\ connected = FALSE
          /\ collection = <<>>
          /\ last = [op |-> "init", err |-> "none"]
    /\ now = 0
    /\ overrode = FALSE
    /\ UtilIdle

GroupNext ==
    \E gf \in GroupFields, criteria \in CriteriaArgs : GroupBy(gf, criteria)

SpecGroup == GroupInit /\ [][GroupNext]_vars

(***************************************************************************)
(* The codec's round trip: encode with lu_func[1], decode with lu_func[0]. *)
(***************************************************************************)
\* datetimes around the edges of a millisecond and of a second
Datetimes ==
    { s * MicrosPerSecond + ms * MicrosPerMilli + us :
        s \in 0..MaxSeconds, ms \in {0, 1, 998, 999}, us \in 0..999 }

LuInit ==
    /\ StoreInit
    /\ pu = [op |-> "idle"]
    /\ NoBuilder
    /\ \E dt \in Datetimes : lu = [stage |-> "dt", dt |-> dt]

Encode ==
    /\ lu.stage = "dt"
    /\ lu' = [stage |-> "encoded", dt |-> lu.dt,
              isostr |-> dt_to_isoformat_ceil_ms(lu.dt)]
    /\ UNCHANGED <<storeVars, pu, builder>>

Decode ==
    /\ lu.stage = "encoded"
    /\ lu' = [stage |-> "decoded", dt |-> lu.dt, isostr |-> lu.isostr,
              back |-> isostr_to_dt(lu.isostr)]
    /\ UNCHANGED <<storeVars, pu, builder>>

LuNext == Encode \/ Decode

SpecLu == LuInit /\ [][LuNext]_vars

(***************************************************************************)
(* Values of documents: mappings with string keys, sequences, strings,     *)
(* integers and None.  A string is the sequence of its characters.         *)
(***************************************************************************)
IntV(n) == [t |-> "int", v |-> n]
NoneV == [t |-> "none"]
StrV(c) == [t |-> "str", c |-> c]
MapV(m) == [t |-> "map", m |-> m]
SeqV(s) == [t |-> "seq", s |-> s]

EmptyMap == [x \in {} |-> NoneV]

\* the outcome of an expression: a value, or the exception raised
Return(v) == [err |-> "none", val |-> v]
Raise(e) == [err |-> e]

DigitSeq == <<"0", "1", "2", "3", "4", "5", "6", "7", "8", "9">>
DigitChars == { DigitSeq[i] : i \in 1..Len(DigitSeq) }
DigitVal(c) == (CHOOSE i \in 1..Len(DigitSeq) : DigitSeq[i] = c) - 1

\* int(s) of a string: an optional sign, then decimal digits (the blanks
\* and underscores int() also accepts are not among the characters used)
Unsigned(s) == IF s # <<>> /\ Head(s) \in {"+", "-"} THEN Tail(s) ELSE s

int_parses(s) ==
    /\ Unsigned(s) # <<>>
    /\ \A i \in 1..Len(Unsigned(s)) : Unsigned(s)[i] \in DigitChars

RECURSIVE DecimalValue(_)
DecimalValue(ds) ==
    IF ds = <<>> THEN 0
    ELSE DecimalValue(SubSeq(ds, 1, Len(ds) - 1)) * 10 + DigitVal(ds[Len(ds)])

int(s) ==
    IF Head(s) = "-" THEN 0 - DecimalValue(Unsigned(s)) ELSE DecimalValue(Unsigned(s))

\* "." in key
HasDot(key) == \E i \in 1..Len(key) : key[i] = "."

FirstDot(key) ==
    CHOOSE i \in 1..Len(key) : key[i] = "." /\ \A j \in 1..(i - 1) : key[j] # "."

\* key.split(".", 1)[0]
SplitHead(key) == IF HasDot(key) THEN SubSeq(key, 1, FirstDot(key) - 1) ELSE key

\* key.split(".", 1)[1]
remainder(key) == SubSeq(key, FirstDot(key) + 1, Len(key))

\* a lead key that is never read as an integer
lead_key_NoInt(key) == [k |-> "str", w |-> SplitHead(key)]

\* lead_key: the integer when int() takes the segment, else the segment
lead_key(key) ==
    IF int_parses(SplitHead(key))
    THEN [k |-> "int", i |-> int(SplitHead(key))]
    ELSE [k |-> "str", w |-> SplitHead(key)]

\* a[i] of a sequence of n items: a negative index counts from the end
IndexInRange(i, n) == 0 - n <= i /\ i < n
Position(i, n) == (IF i < 0 THEN i + n ELSE i) + 1

\* d[k]: the subscription of a mapping, a sequence, a string, or of a value
\* that takes no subscript
getitem(d, k) ==
    CASE d.t = "map" ->
            IF k.k = "str" /\ k.w \in DOMAIN d.m THEN Return(d.m[k.w])
            ELSE Raise("KeyError")
      [] d.t = "seq" ->
            IF k.k # "int" THEN Raise("TypeError")
            ELSE IF IndexInRange(k.i, Len(d.s))
                 THEN Return(d.s[Position(k.i, Len(d.s))])
                 ELSE Raise("IndexError")
      [] d.t = "str" ->
            IF k.k # "int" THEN Raise("TypeError")
            ELSE IF IndexInRange(k.i, Len(d.c))
                 THEN Return(StrV(<<d.c[Position(k.i, Len(d.c))]>>))
                 ELSE Raise("IndexError")
      [] OTHER -> Raise("TypeError")

RECURSIVE get_mongolike(_, _)
get_mongolike(d, key) ==
    LET r == getitem(d, lead_key(key))
    IN IF HasDot(key)
       THEN IF r.err # "none" THEN r ELSE get_mongolike(r.val, remainder(key))
       ELSE r

(***************************************************************************)
(* get_mongolike over documents and dotted keys.                           *)
(***************************************************************************)
KeyChars == {"a", "b", "1", "-", "."}

\* the dotted keys: every string of one to MaxKeyLen of the characters
DottedKeys == UNION { [1..n -> KeyChars] : n \in 1..MaxKeyLen }

\* {"a": {"b": {"a": 3}, "a": 4}, "b": 5}
DocNested ==
    MapV(<<"a">> :> MapV(<<"b">> :> MapV(<<"a">> :> IntV(3)) @@ <<"a">> :> IntV(4))
         @@ <<"b">> :> IntV(5))

\* {"a": [6, {"b": 7}], "b": [[8, 9]]}
DocArrays ==
    MapV(<<"a">> :> SeqV(<< IntV(6), MapV(<<"b">> :> IntV(7)) >>)
         @@ <<"b">> :> SeqV(<< SeqV(<< IntV(8), IntV(9) >>) >>))

\* {"1": 1, "a": {"1": 2, "-1": 3}}
DocDigitKeys ==
    MapV(<<"1">> :> IntV(1)
         @@ <<"a">> :> MapV(<<"1">> :> IntV(2) @@ <<"-", "1">> :> IntV(3)))

\* {"a": "ab", "b": None}
DocScalars == MapV(<<"a">> :> StrV(<<"a", "b">>) @@ <<"b">> :> NoneV)

\* [{"a": 1}, [2]]
DocList == SeqV(<< MapV(<<"a">> :> IntV(1)), SeqV(<< IntV(2) >>) >>)

\* {"": 1, "a": {"": 2}}
DocEmptyKeys == MapV(<<>> :> IntV(1) @@ <<"a">> :> MapV(<<>> :> IntV(2)))

GetDocs ==
    { DocNested, DocArrays, DocDigitKeys, DocScalars, DocList, DocEmptyKeys,
      MapV(EmptyMap) }

GetInit ==
    /\ StoreInit
    /\ lu = [stage |-> "idle"]
    /\ NoBuilder
    /\ \E d \in GetDocs, key \in DottedKeys :
          pu = [op |-> "get_mongolike", d |-> d, key |-> key]

GetMongolike ==
    /\ pu.op = "get_mongolike"
    /\ pu' = [op |-> "got", d |-> pu.d, key |-> pu.key,
              ret |-> get_mongolike(pu.d, pu.key)]
    /\ UNCHANGED <<storeVars, lu, builder>>

GetNext == GetMongolike

SpecGet == GetInit /\ [][GetNext]_vars

(***************************************************************************)
(* The pydash functions maggma/utils.py imports (to_path, get, has, set_,  *)
(* unset), over documents of nested mappings, and unset and substitute.    *)
(* A key is a dotted string or a list of path segments.                    *)
(***************************************************************************)
StrKey(w) == [k |-> "str", w |-> w]
ListKey(l) == [k |-> "list", l |-> l]

RECURSIVE SplitDots(_)
SplitDots(w) ==
    IF HasDot(w) THEN <<SplitHead(w)>> \o SplitDots(remainder(w)) ELSE <<w>>

\* to_path: a list is its own path; a string is split at its dots, empty
\* pieces dropped
to_path(key) ==
    IF key.k = "list" THEN key.l
    ELSE SelectSeq(SplitDots(key.w), LAMBDA s : s # <<>>)

\* get(d, path): the value at the path, None when the path leads nowhere
RECURSIVE GetPath(_, _)
GetPath(d, path) ==
    IF path = <<>> THEN d
    ELSE IF d.t = "map" /\ Head(path) \in DOMAIN d.m
         THEN GetPath(d.m[Head(path)], Tail(path))
         ELSE NoneV

get(d, key) == GetPath(d, to_path(key))

RECURSIVE HasPath(_, _)
HasPath(d, path) ==
    IF path = <<>> THEN TRUE
    ELSE /\ d.t = "map"
         /\ Head(path) \in DOMAIN d.m
         /\ HasPath(d.m[Head(path)], Tail(path))

has(d, key) == HasPath(d, to_path(key))

\* obj[key] = value
SetItem(m, k, v) == [x \in (DOMAIN m) \cup {k} |-> IF x = k THEN v ELSE m[x]]

\* del obj[key]
DelItem(m, k) == [x \in (DOMAIN m) \ {k} |-> m[x]]

\* set_(d, path, value): mappings are made for the keys that are missing on
\* the way; a value on the way that is no mapping takes no attribute
RECURSIVE SetPath(_, _, _)
SetPath(d, path, value) ==
    IF d.t # "map" THEN [err |-> "AttributeError", val |-> d]
    ELSE IF Len(path) = 1 THEN Return(MapV(SetItem(d.m, Head(path), value)))
    ELSE LET child == IF Head(path) \in DOMAIN d.m THEN d.m[Head(path)]
                      ELSE MapV(EmptyMap)
             r == SetPath(child, Tail(path), value)
         IN IF r.err # "none" THEN [err |-> r.err, val |-> d]
            ELSE Return(MapV(SetItem(d.m, Head(path), r.val)))

set_(d, key, value) == SetPath(d, to_path(key), value)

\* pydash's unset: pops the last key from the mapping the path leads to,
\* and does nothing when the path leads nowhere
RECURSIVE UnsetPath(_, _)
UnsetPath(d, path) ==
    IF path = <<>> \/ d.t # "map" \/ Head(path) \notin DOMAIN d.m THEN d
    ELSE IF Len(path) = 1 THEN MapV(DelItem(d.m, Head(path)))
    ELSE MapV(SetItem(d.m, Head(path), UnsetPath(d.m[Head(path)], Tail(path))))

pydash_unset(d, key) == UnsetPath(d, to_path(key))

\* len(x) is defined for mappings, sequences and strings
HasLen(x) == x.t \in {"map", "seq", "str"}

len(x) ==
    CASE x.t = "map" -> Cardinality(DOMAIN x.m)
      [] x.t = "seq" -> Len(x.s)
      [] OTHER -> Len(x.c)

\* unset(d, key): the outcome carries the document as the call left it
RECURSIVE unset(_, _), UnsetLoop(_, _, _)
\* for i in reversed(range(1, len(path))), from i down
UnsetLoop(d, path, i) ==
    IF i < 1 THEN Return(d)
    ELSE LET g == GetPath(d, SubSeq(path, 1, i))
         IN IF ~HasLen(g) THEN [err |-> "TypeError", val |-> d]
            ELSE IF len(g) = 0
                 THEN LET r == unset(d, ListKey(SubSeq(path, 1, i)))
                      IN IF r.err # "none" THEN r
                         ELSE UnsetLoop(r.val, path, i - 1)
                 ELSE UnsetLoop(d, path, i - 1)

unset(d, key) ==
    UnsetLoop(pydash_unset(d, key), to_path(key), Len(to_path(key)) - 1)

\* substitute(d, aliases), aliases the (alias, key) items in order
RECURSIVE SubstituteFrom(_, _, _)
SubstituteFrom(d, aliases, n) ==
    IF n > Len(aliases) THEN Return(d)
    ELSE LET alias == StrKey(aliases[n][1])
             key == StrKey(aliases[n][2])
         IN IF has(d, key)
            THEN LET s == set_(d, alias, get(d, key))
                 IN IF s.err # "none" THEN s
                    ELSE LET u == unset(s.val, key)
                         IN IF u.err # "none" THEN u
                            ELSE SubstituteFrom(u.val, aliases, n + 1)
            ELSE SubstituteFrom(d, aliases, n + 1)

substitute(d, aliases) == SubstituteFrom(d, aliases, 1)

\* the Aliasing Store's reverse_aliases: {v: k for k, v in aliases.items()}
reverse_aliases(aliases) ==
    [n \in 1..Len(aliases) |-> << aliases[n][2], aliases[n][1] >>]

(***************************************************************************)
(* unset and substitute over documents and keys.                           *)
(***************************************************************************)
\* the mappings of some of the keys to the values of T
PartialMaps(keys, T) == UNION { [S -> T] : S \in SUBSET keys }

\* the values nested to a depth: the integer 3, or a mapping of values
RECURSIVE Trees(_, _)
Trees(keys, depth) ==
    IF depth = 0 THEN {IntV(3)}
    ELSE {IntV(3)} \cup { MapV(m) : m \in PartialMaps(keys, Trees(keys, depth - 1)) }

\* the documents: the mappings among them
TreeDocs(keys, depth) ==
    { MapV(m) : m \in PartialMaps(keys, Trees(keys, depth - 1)) }

\* "a.b.c" of the path a, b, c
RECURSIVE Dotted(_)
Dotted(path) ==
    IF Len(path) = 1 THEN Head(path)
    ELSE Head(path) \o <<".">> \o Dotted(Tail(path))

UnsetKeyNames == { <<"a">>, <<"b">> }

UnsetDocs == TreeDocs(UnsetKeyNames, MaxDepth)

UnsetKeys ==
    { Dotted(p) : p \in UNION { [1..n -> UnsetKeyNames] : n \in 1..MaxDepth } }

UnsetInit ==
    /\ StoreInit
    /\ lu = [stage |-> "idle"]
    /\ NoBuilder
    /\ \E d \in UnsetDocs, key \in UnsetKeys :
          pu = [op |-> "unset", d |-> d, key |-> key]

Unset ==
    /\ pu.op = "unset"
    /\ pu' = [op |-> "unset_done", d |-> pu.d, key |-> pu.key,
              ret |-> unset(pu.d, StrKey(pu.key))]
    /\ UNCHANGED <<storeVars, lu, builder>>

UnsetNext == Unset

SpecUnset == UnsetInit /\ [][UnsetNext]_vars

AliasKeyNames == { <<"a">>, <<"b">>, <<"c">> }

AliasDocs == TreeDocs(AliasKeyNames, MaxAliasDepth)

\* alias mappings, external path -> internal path:
\* {"c": "a.b"}, {"c": "a.b.c"}, {"a.b": "c"}, {"a": "b"},
\* {"c": "a.b", "b": "a.c"}
AliasMaps ==
    { << << <<"c">>, <<"a", ".", "b">> >> >>,
      << << <<"c">>, <<"a", ".", "b", ".", "c">> >> >>,
      << << <<"a", ".", "b">>, <<"c">> >> >>,
      << << <<"a">>, <<"b">> >> >>,
      << << <<"c">>, <<"a", ".", "b">> >>, << <<"b">>, <<"a", ".", "c">> >> >> }

AliasInit ==
    /\ StoreInit
    /\ lu = [stage |-> "idle"]
    /\ NoBuilder
    /\ \E d \in AliasDocs, aliases \in AliasMaps :
          pu = [op |-> "external", d |-> d, aliases |-> aliases]

\* AliasingStore.update: substitute(d, self.reverse_aliases)
ToInternal ==
    /\ pu.op = "external"
    /\ pu' = [op |-> "internal", d |-> pu.d, aliases |-> pu.aliases,
              ret |-> substitute(pu.d, reverse_aliases(pu.aliases))]
    /\ UNCHANGED <<storeVars, lu, builder>>

\* AliasingStore.query: substitute(d, self.aliases) on the document held
ToExternal ==
    /\ pu.op = "internal"
    /\ pu.ret.err = "none"
    /\ pu' = [op |-> "read", d |-> pu.d, aliases |-> pu.aliases,
              held |-> pu.ret.val, ret |-> substitute(pu.ret.val, pu.aliases)]
    /\ UNCHANGED <<storeVars, lu, builder>>

AliasNext == ToInternal \/ ToExternal

SpecAlias == AliasInit /\ [][AliasNext]_vars

(***************************************************************************)
(* recursive_update over dict objects.  The heap maps an object to its     *)
(* items; an item's value is an integer or a reference to a dict, so that  *)
(* d[k] = v makes d share the dict v with u.                               *)
(***************************************************************************)
Ref(o) == [t |-> "ref", o |-> o]

\* the two dicts handed to recursive_update, as d or as u
Roots == {1, 2}

MergeKeyNames == { <<"a">>, <<"b">> }

\* the item that may hold a dict: the item a, down to the depth of nesting
Nests(level, k) == level < MaxMergeDepth /\ k = <<"a">>

\* u.items() yields the keys in the order of their insertion
KeyOrders == { << <<"a">>, <<"b">> >>, << <<"b">>, <<"a">> >> }

items(m, order) == SelectSeq(order, LAMBDA k : k \in DOMAIN m)

\* the dicts of root r nested from a level on: the leaves are the integer r
RECURSIVE MergeDicts(_, _)
MergeDicts(r, level) ==
    LET cells == IF level < MaxMergeDepth
                 THEN {IntV(r)} \cup MergeDicts(r, level + 1)
                 ELSE {IntV(r)}
    IN { MapV(m) : m \in { f \in PartialMaps(MergeKeyNames, cells) :
                             \A k \in DOMAIN f : f[k].t = "map" => Nests(level, k) } }

\* an object is the dict found at a path below a root when the heap was made
RECURSIVE PathsBelow(_)
PathsBelow(level) ==
    IF level >= MaxMergeDepth THEN { <<>> }
    ELSE { <<>> } \cup { <<k>> \o p : k \in { x \in MergeKeyNames : Nests(level, x) },
                                      p \in PathsBelow(level + 1) }

Objects == { [root |-> r, path |-> p] : r \in Roots, p \in PathsBelow(1) }

\* the items of the object at a path of the document v
ItemsOf(v, o) ==
    IF HasPath(v, o.path) /\ GetPath(v, o.path).t = "map"
    THEN LET m == GetPath(v, o.path).m
         IN [k \in DOMAIN m |->
                IF m[k].t = "map"
                THEN Ref([root |-> o.root, path |-> Append(o.path, k)])
                ELSE m[k]]
    ELSE EmptyMap

\* the heap that holds the documents docs[r], one per root, nothing shared
HeapOf(docs) == [o \in Objects |-> ItemsOf(docs[o.root], o)]

RootOf(r) == [root |-> r, path |-> <<>>]

RECURSIVE recursive_update(_, _, _, _)
\* d[k] = v whatever d holds at k
UpdateItem_Overwrite(h, d, u, k, order) ==
    [h EXCEPT ![d] = SetItem(h[d], k, h[u][k])]

\* the body of the loop, for the item k, v of u
UpdateItem(h, d, u, k, order) ==
    LET v == h[u][k]
    IN IF k \in DOMAIN h[d]
       THEN IF v.t = "ref" /\ h[d][k].t = "ref"
            THEN recursive_update(h, h[d][k].o, v.o, order)
            ELSE [h EXCEPT ![d] = SetItem(h[d], k, v)]
       ELSE [h EXCEPT ![d] = SetItem(h[d], k, v)]

RECURSIVE UpdateItems(_, _, _, _, _)
UpdateItems(h, d, u, ks, order) ==
    IF ks = <<>> THEN h
    ELSE UpdateItems(UpdateItem(h, d, u, Head(ks), order), d, u, Tail(ks), order)

recursive_update(h, d, u, order) ==
    UpdateItems(h, d, u, items(h[u], order), order)

MergeInit ==
    /\ StoreInit
    /\ lu = [stage |-> "idle"]
    /\ NoBuilder
    /\ \E docs \in [Roots -> MergeDicts(1, 1) \cup MergeDicts(2, 1)] :
          /\ \A r \in Roots : docs[r] \in MergeDicts(r, 1)
          /\ pu = [op |-> "dicts", heap |-> HeapOf(docs)]

RecursiveUpdate(d, u, order) ==
    /\ pu.op \in {"dicts", "recursive_update"}
    /\ pu' = [op |-> "recursive_update", d |-> d, u |-> u,
              heap |-> recursive_update(pu.heap, RootOf(d), RootOf(u), order)]
    /\ UNCHANGED <<storeVars, lu, builder>>

MergeNext ==
    \E d \in Roots, u \in Roots, order \in KeyOrders : RecursiveUpdate(d, u, order)

SpecMerge == MergeInit /\ [][MergeNext]_vars

(***************************************************************************)
(* Builder (maggma/builder.py): connect() and finalize(cursor) over the    *)
(* Stores of a Builder.  A Store is an object with a collection (None      *)
(* until connect, as the tests of maggma/tests/test_stores.py assert) and, *)
(* when it is database-backed, a client behind collection.database.  The   *)
(* same Store object may be listed more than once, among the sources and   *)
(* among the targets.                                                      *)
(***************************************************************************)
MaxStores == 2      \* Store objects, and Stores a Builder lists, at most

MaxItems == 1       \* items the iterable of get_items yields at most

StoreIds == 1..MaxStores

\* a Store as constructed: no collection yet
NewStore(backed) == [backed |-> backed, collection |-> "None", client |-> "none"]

\* Store.connect(): the collection is set; a database-backed Store opens a
\* client of its own
Store_connect(s) ==
    [s EXCEPT !.collection = "Collection",
              !.client = IF s.backed THEN "open" ELSE "none"]

\* Builder.__init__
NewBuilder(sources, targets, backed) ==
    [op |-> "init", err |-> "none", calls |-> <<>>, passed |-> FALSE,
     sources |-> sources, targets |-> targets,
     objs |-> [id \in StoreIds |-> NewStore(backed[id])],
     cursor |-> [kind |-> "None"]]

RECURSIVE connect_loop(_, _, _, _)
\* for s in stores: s.connect() -- the call at position failAt raises, and
\* nothing catches it
connect_loop(stores, i, objs, failAt) ==
    IF i > Len(stores)
    THEN [err |-> "none", objs |-> objs, calls |-> stores]
    ELSE IF i = failAt
         THEN [err |-> "ConnectionError", objs |-> objs,
               calls |-> SubSeq(stores, 1, i)]
         ELSE connect_loop(stores, i + 1,
                           [objs EXCEPT ![stores[i]] = Store_connect(@)], failAt)

\* a connect that forgets the targets
Builder_connect_SourcesOnly(b, failAt) ==
    connect_loop(b.sources, 1, b.objs, failAt)

Builder_connect(b, failAt) ==
    connect_loop(b.sources \o b.targets, 1, b.objs, failAt)

\* store.collection.database.client.close(): None has no database, and the
\* collection of a Store that is not database-backed has none either
client_close(s) ==
    IF s.collection = "None" \/ ~s.backed
    THEN [err |-> "AttributeError", obj |-> s]
    ELSE [err |-> "none", obj |-> [s EXCEPT !.client = "closed"]]

RECURSIVE close_loop(_, _, _)
\* a loop that stops at the first Store without a client
close_loop_Break(stores, i, objs) ==
    IF i > Len(stores)
    THEN [err |-> "none", objs |-> objs]
    ELSE LET r == client_close(objs[stores[i]])
         IN  IF r.err = "AttributeError"
             THEN [err |-> "none", objs |-> objs]
             ELSE close_loop(stores, i + 1, [objs EXCEPT ![stores[i]] = r.obj])

\* for store in (self.sources + self.targets): try: ...close()
\* except AttributeError: continue
close_loop(stores, i, objs) ==
    IF i > Len(stores)
    THEN [err |-> "none", objs |-> objs]
    ELSE LET r == client_close(objs[stores[i]])
         IN  IF r.err = "AttributeError"
             THEN close_loop(stores, i + 1, objs)
             ELSE close_loop(stores, i + 1, [objs EXCEPT ![stores[i]] = r.obj])

\* what get_items may hand out: a list, a generator, a Mongo cursor
CursorKinds == {"list", "generator", "Cursor"}

NoCursor == [kind |-> "None"]

\* Python's truth value of the argument: None and the empty list are false
bool(cursor) ==
    CASE cursor.kind = "None" -> FALSE
      [] cursor.kind = "list" -> cursor.size > 0
      [] OTHER -> TRUE

\* a list has no close attribute
has_close(cursor) == cursor.kind \in {"generator", "Cursor"}

\* try: cursor and cursor.close()  except AttributeError: pass
cursor_close(cursor) ==
    IF ~bool(cursor)
    THEN [err |-> "none", cursor |-> cursor]
    ELSE IF ~has_close(cursor)
         THEN [err |-> "none", cursor |-> cursor]
         ELSE [err |-> "none", cursor |-> [cursor EXCEPT !.closed = TRUE]]

Builder_finalize(b, cursor) ==
    LET stores == close_loop(b.sources \o b.targets, 1, b.objs)
        closed == cursor_close(cursor)
    IN  IF stores.err # "none"
        THEN [err |-> stores.err, objs |-> stores.objs, cursor |-> cursor]
        ELSE [err |-> closed.err, objs |-> stores.objs, cursor |-> closed.cursor]

\* the Stores a Builder is constructed with
StoreLists ==
    { pair \in SeqsUpTo(StoreIds, MaxStores) \X SeqsUpTo(StoreIds, MaxStores) :
         Len(pair[1]) + Len(pair[2]) <= MaxStores }

BuilderInit ==
    /\ StoreInit
    /\ lu = [stage |-> "idle"]
    /\ pu = [op |-> "idle"]
    /\ \E pair \in StoreLists, backed \in [StoreIds -> BOOLEAN] :
          builder = NewBuilder(pair[1], pair[2], backed)

\* builder.connect(), the call at position failAt failing (0: none fails)
BuilderConnect(failAt) ==
    /\ failAt <= Len(builder.sources \o builder.targets)
    /\ LET r == Builder_connect(builder, failAt)
       IN  builder' = [builder EXCEPT !.op = "connect", !.err = r.err,
                                      !.calls = r.calls, !.objs = r.objs,
                                      !.passed = FALSE]
    /\ UNCHANGED <<storeVars, lu, pu>>

\* builder.get_items(), once in a run: a fresh iterable of size items
GetItems(kind, size) ==
    /\ builder.cursor = NoCursor
    /\ builder' = [builder EXCEPT !.op = "get_items", !.err = "none",
                                  !.calls = <<>>, !.passed = FALSE,
                                  !.cursor = [kind |-> kind, size |-> size,
                                              pos |-> 0, closed |-> FALSE]]
    /\ UNCHANGED <<storeVars, lu, pu>>

\* the runner takes the next item
NextItem ==
    /\ builder.cursor.kind \in CursorKinds
    /\ ~builder.cursor.closed
    /\ builder.cursor.pos < builder.cursor.size
    /\ builder' = [builder EXCEPT !.op = "next", !.err = "none", !.calls = <<>>,
                                  !.passed = FALSE, !.cursor.pos = @ + 1]
    /\ UNCHANGED <<storeVars, lu, pu>>

\* builder.finalize(cursor), or builder.finalize()
Finalize(passed) ==
    /\ LET cursor == IF passed THEN builder.cursor ELSE NoCursor
           r == Builder_finalize(builder, cursor)
       IN  builder' = [builder EXCEPT !.op = "finalize", !.err = r.err,
                                      !.calls = <<>>, !.objs = r.objs,
                                      !.cursor = IF passed THEN r.cursor ELSE @,
                                      !.passed = passed]
    /\ UNCHANGED <<storeVars, lu, pu>>

BuilderNext ==
    \/ \E failAt \in 0..MaxStores : BuilderConnect(failAt)
    \/ \E kind \in CursorKinds, size \in 0..MaxItems : GetItems(kind, size)
    \/ NextItem
    \/ \E passed \in BOOLEAN : Finalize(passed)

SpecBuilder == BuilderInit /\ [][BuilderNext]_vars

(***************************************************************************)
(* Store: what the claims speak of.                                        *)
(***************************************************************************)
StripLu(doc) == [x \in (DOMAIN doc) \ {LuField} |-> doc[x]]

\* the observable state of a collection, the last-updated field left out
Observable(coll) == [i \in 1..Len(coll) |-> StripLu(coll[i])]

\* doc carries every field of kf with d's value
AgreesOn(doc, d, kf) ==
    \A i \in 1..Len(kf) : kf[i] \in DOMAIN doc /\ doc[kf[i]] = d[kf[i]]

WithKey(coll, d, kf) == { i \in 1..Len(coll) : AgreesOn(coll[i], d, kf) }

\* the call l was a successful update of one document under the key kf
UpdatedOk(l, kf) ==
    /\ l.op = "update"
    /\ l.err = "none"
    /\ l.update_key = kf
    /\ Len(l.update_docs) = 1

KeyUnique(coll) ==
    \A i, j \in 1..Len(coll) :
        (/\ i # j
         /\ DefaultKey \in DOMAIN coll[i]
         /\ DefaultKey \in DOMAIN coll[j]) => coll[i][DefaultKey] # coll[j][DefaultKey]

CompositeKey == <<"d", "f">>

StoreOps == {"query", "query_one", "distinct", "groupby", "update"}

C8_RoundTripCeil ==
    lu.stage = "decoded" =>
        /\ lu.back >= lu.dt
        /\ lu.back - lu.dt <= MicrosPerMilli
        /\ lu.back % MicrosPerMilli = 0

\* a datetime on a millisecond boundary, in the last millisecond of a
\* second: read back a whole millisecond later, in the next second
C8_Witness ==
    /\ lu.stage = "decoded"
    /\ lu.dt % MicrosPerSecond = 999 * MicrosPerMilli
    /\ lu.back = lu.dt + MicrosPerMilli
    /\ lu.isostr.secs = lu.dt \div MicrosPerSecond + 1
    /\ lu.isostr.frac = <<0, 0, 0>>

\* the positions of the collection whose documents satisfy the criteria
MatchingAt(coll, criteria) ==
    { i \in 1..Len(coll) :
        \A x \in DOMAIN criteria : x \in DOMAIN coll[i] /\ coll[i][x] = criteria[x] }

\* the (group, position) pairs of a groupby result
Members(ret, n) ==
    { p \in (1..Len(ret)) \X (1..n) : p[2] <= Len(ret[p[1]].docs) }

\* C10: the groups of groupby(fields, criteria) partition the matching
\* documents: every matching document is in the docs of exactly one group,
\* as many times as the collection holds it; the documents of a group carry
\* the group's _id values for the fields; no two groups have the same _id.
C10_GroupsPartition ==
    (last.op = "groupby" /\ last.err = "none") =>
        LET ret == last.groupby_ret
            gf == last.groupby_fields
            at == MatchingAt(collection, last.groupby_criteria)
            fs == { gf[i] : i \in 1..Len(gf) }
        IN /\ \A i \in at :
                 Cardinality({ g \in 1..Len(ret) :
                     \E j \in 1..Len(ret[g].docs) : ret[g].docs[j] = collection[i] }) = 1
           /\ \A p \in Members(ret, Len(collection)) :
                 Cardinality({ q \in Members(ret, Len(collection)) :
                                 ret[q[1]].docs[q[2]] = ret[p[1]].docs[p[2]] })
                 = Cardinality({ i \in at : collection[i] = ret[p[1]].docs[p[2]] })
           /\ \A g \in 1..Len(ret) :
                 /\ ret[g].docs # <<>>
                 /\ \A j \in 1..Len(ret[g].docs) :
                       /\ DOMAIN ret[g]._id = fs \cap DOMAIN ret[g].docs[j]
                       /\ \A x \in DOMAIN ret[g]._id :
                             ret[g]._id[x] = ret[g].docs[j][x]
           /\ \A g, h \in 1..Len(ret) : g # h => ret[g]._id # ret[h]._id

\* four documents whose d values are three alike and one apart: two groups,
\* of three documents and of one
C10_Witness ==
    /\ last.op = "groupby"
    /\ last.err = "none"
    /\ last.groupby_fields = <<"d">>
    /\ last.groupby_criteria = NoCriteria
    /\ Len(collection) = 4
    /\ \A i \in 1..4 : "d" \in DOMAIN collection[i]
    /\ Len(last.groupby_ret) = 2
    /\ { Len(last.groupby_ret[g].docs) : g \in 1..2 } = {1, 3}

(***************************************************************************)
(* get_mongolike: what the claims speak of.                                *)
(***************************************************************************)
RECURSIVE Ascending(_)
Ascending(S) ==
    IF S = {} THEN <<>>
    ELSE LET m == CHOOSE x \in S : \A y \in S : x <= y
         IN <<m>> \o Ascending(S \ {m})

\* the segments of a dotted key: the pieces its dots separate
Segments(key) ==
    LET cuts == <<0>> \o Ascending({ i \in 1..Len(key) : key[i] = "." })
                     \o <<Len(key) + 1>>
    IN [n \in 1..(Len(cuts) - 1) |-> SubSeq(key, cuts[n] + 1, cuts[n + 1] - 1)]

\* a segment that reads as an integer: digits, after a sign or not
Digits(seg) == IF seg # <<>> /\ seg[1] \in {"+", "-"} THEN SubSeq(seg, 2, Len(seg)) ELSE seg

IsIndex(seg) == Digits(seg) # <<>> /\ \A i \in 1..Len(Digits(seg)) : Digits(seg)[i] \in DigitChars

RECURSIVE Horner(_, _)
Horner(ds, acc) ==
    IF ds = <<>> THEN acc ELSE Horner(Tail(ds), acc * 10 + DigitVal(Head(ds)))

IndexOf(seg) ==
    IF seg[1] = "-" THEN 0 - Horner(Digits(seg), 0) ELSE Horner(Digits(seg), 0)

\* the items of a sequence; a string is the sequence of its characters
Items(v) ==
    IF v.t = "seq" THEN v.s ELSE [i \in 1..Len(v.c) |-> StrV(<<v.c[i]>>)]

\* the path of segments is present in v: every mapping on the way holds the
\* segment as a key and every sequence has the segment as an index
RECURSIVE Present(_, _, _)
Present(v, segs, n) ==
    IF n > Len(segs) THEN TRUE
    ELSE CASE v.t = "map" ->
                 segs[n] \in DOMAIN v.m /\ Present(v.m[segs[n]], segs, n + 1)
           [] v.t = "seq" ->
                 /\ IsIndex(segs[n])
                 /\ IndexOf(segs[n]) \in 0..(Len(v.s) - 1)
                 /\ Present(v.s[IndexOf(segs[n]) + 1], segs, n + 1)
           [] OTHER -> FALSE

RECURSIVE ValueAt(_, _, _)
ValueAt(v, segs, n) ==
    IF n > Len(segs) THEN v
    ELSE IF v.t = "map" THEN ValueAt(v.m[segs[n]], segs, n + 1)
         ELSE ValueAt(v.s[IndexOf(segs[n]) + 1], segs, n + 1)

StepOutcome(v, seg) ==
    IF v.t = "map"
    THEN IF ~IsIndex(seg) /\ seg \in DOMAIN v.m THEN Return(v.m[seg])
         ELSE Raise("KeyError")
    ELSE IF v.t \in {"seq", "str"}
         THEN IF ~IsIndex(seg) THEN Raise("TypeError")
              ELSE LET i == IndexOf(seg)
                       size == Len(Items(v))
                   IN IF 0 <= i /\ i < size THEN Return(Items(v)[i + 1])
                      ELSE IF i < 0 /\ 0 - i <= size THEN Return(Items(v)[size + i + 1])
                      ELSE Raise("IndexError")
         ELSE Raise("TypeError")

RECURSIVE Walk(_, _, _)
Walk(v, segs, n) ==
    IF n > Len(segs) THEN Return(v)
    ELSE LET r == StepOutcome(v, segs[n])
         IN IF r.err # "none" THEN r ELSE Walk(r.val, segs, n + 1)

RECURSIVE Holds(_, _)
Holds(v, path) ==
    IF path = <<>> THEN TRUE
    ELSE /\ v.t = "map"
         /\ path[1] \in DOMAIN v.m
         /\ Holds(v.m[path[1]], SubSeq(path, 2, Len(path)))

RECURSIVE At(_, _)
At(v, path) ==
    IF path = <<>> THEN v ELSE At(v.m[path[1]], SubSeq(path, 2, Len(path)))

Without(m, k) == [x \in (DOMAIN m) \ {k} |-> m[x]]

With(m, k, v) == [x \in (DOMAIN m) \cup {k} |-> IF x = k THEN v ELSE m[x]]

\* the mapping v with the value at the path removed and every mapping on
\* the way that the removal left empty removed as well, v itself excepted
RECURSIVE Pruned(_, _)
Pruned(v, path) ==
    IF Len(path) = 1 THEN MapV(Without(v.m, path[1]))
    ELSE LET below == Pruned(v.m[path[1]], SubSeq(path, 2, Len(path)))
         IN IF DOMAIN below.m = {} THEN MapV(Without(v.m, path[1]))
            ELSE MapV(With(v.m, path[1], below))

\* C6 as stated: unset on a path the document holds, of any depth, returns
\* normally and leaves the document without the value and without the
\* ancestors the removal emptied, all else unchanged.
C6_UnsetPrunes ==
    (pu.op = "unset_done" /\ Holds(pu.d, Segments(pu.key)))
    => /\ pu.ret.err = "none"
       /\ pu.ret.val = Pruned(pu.d, Segments(pu.key))

\* the first segment of a dotted path
FirstSegment(w) == Segments(w)[1]

\* the document holds nothing under the first key of any internal path
Disjoint(d, aliases) ==
    \A n \in 1..Len(aliases) : FirstSegment(aliases[n][2]) \notin DOMAIN d.m

\* the first keys of the paths of a mapping, external and internal
Covered(aliases) ==
    { FirstSegment(aliases[n][1]) : n \in 1..Len(aliases) } \cup
    { FirstSegment(aliases[n][2]) : n \in 1..Len(aliases) }

\* C5 as stated, for the documents that hold nothing at an internal path:
\* the translation to internal paths puts every aliased value under its
\* internal path and leaves the fields the mapping does not cover, and the
\* translation back gives the document again.
C5_AliasRoundTrip ==
    (pu.op \in {"internal", "read"} /\ Disjoint(pu.d, pu.aliases))
    => /\ pu.ret.err = "none"
       /\ pu.op = "internal" =>
             /\ \A n \in 1..Len(pu.aliases) :
                   Holds(pu.d, Segments(pu.aliases[n][1])) =>
                       /\ Holds(pu.ret.val, Segments(pu.aliases[n][2]))
                       /\ At(pu.ret.val, Segments(pu.aliases[n][2]))
                            = At(pu.d, Segments(pu.aliases[n][1]))
             /\ \A k \in (DOMAIN pu.d.m) \ Covered(pu.aliases) :
                   k \in DOMAIN pu.ret.val.m /\ pu.ret.val.m[k] = pu.d.m[k]
       /\ pu.op = "read" => pu.ret.val = pu.d

(***************************************************************************)
(* recursive_update: what the claims speak of.                             *)
(***************************************************************************)
\* the document an object stands for
RECURSIVE Value(_, _)
Value(h, o) ==
    MapV([k \in DOMAIN h[o] |->
            IF h[o][k].t = "ref" THEN Value(h, h[o][k].o) ELSE h[o][k]])

\* the merge of the document src into the document dst
RECURSIVE Merged(_, _)
Merged(dst, src) ==
    MapV([k \in (DOMAIN dst.m) \cup (DOMAIN src.m) |->
            IF k \notin DOMAIN src.m THEN dst.m[k]
            ELSE IF k \in DOMAIN dst.m /\ dst.m[k].t = "map" /\ src.m[k].t = "map"
                 THEN Merged(dst.m[k], src.m[k])
                 ELSE src.m[k]])

\* C9: recursive_update(dst, src) leaves dst the recursive merge of src into
\* it (at each key of src the merge of two mappings, else src's value; what
\* src does not mention kept), leaves src as it was, and changes nothing
\* when it is called a second time with the same src.
C9_RecursiveMerge ==
    [][ pu'.op = "recursive_update" =>
          LET dst == RootOf(pu'.d)
              src == RootOf(pu'.u)
          IN /\ Value(pu'.heap, dst)
                   = Merged(Value(pu.heap, dst), Value(pu.heap, src))
             /\ Value(pu'.heap, src) = Value(pu.heap, src)
             /\ (pu.op = "recursive_update" /\ pu.d = pu'.d /\ pu.u = pu'.u)
                   => \A r \in Roots :
                         Value(pu'.heap, RootOf(r)) = Value(pu.heap, RootOf(r))
      ]_vars

\* dst is {"a": {"a": 1, "b": 2}, "b": 1} after the merge of a src that
\* holds {"b": 2} at a: merged at a, a.a and b kept, src as it was
C9_Witness ==
    /\ pu.op = "recursive_update"
    /\ pu.d = 1
    /\ pu.u = 2
    /\ Value(pu.heap, RootOf(1))
          = MapV(<<"a">> :> MapV(<<"a">> :> IntV(1) @@ <<"b">> :> IntV(2))
                 @@ <<"b">> :> IntV(1))
    /\ Value(pu.heap, RootOf(2)) = MapV(<<"a">> :> MapV(<<"b">> :> IntV(2)))

(***************************************************************************)
(* Builder: what the claims speak of.                                      *)
(***************************************************************************)
\* the Stores of the Builder, sources first
Listed == builder.sources \o builder.targets

IsConnected(s) == s.collection # "None"

IsPrefix(s, t) == Len(s) <= Len(t) /\ s = SubSeq(t, 1, Len(s))

\* the Stores whose connect() returned, given the calls made and the outcome
Reached(calls, err) ==
    { calls[i] : i \in 1..(IF err = "none" THEN Len(calls) ELSE Len(calls) - 1) }

(* C11: Builder.connect() calls connect() once on each Store, the sources  *)
(* first and the targets after them, in the order listed.  When it returns *)
(* normally it has called every one of them and every Store of sources and *)
(* targets is connected.  When a Store's connect fails the error reaches   *)
(* the caller as it is: that call is the last one made (no retry, no call  *)
(* on the Stores that follow), the Stores connected before stay connected  *)
(* and the others are left as they were.                                   *)
C11_ConnectsAll ==
    [][builder'.op = "connect" =>
         LET calls == builder'.calls
             err == builder'.err
             reached == Reached(calls, err)
         IN  /\ IsPrefix(calls, Listed)
             /\ UNCHANGED <<builder.sources, builder.targets>>
             /\ err = "none" =>
                   /\ calls = Listed
                   /\ \A i \in 1..Len(Listed) : IsConnected(builder'.objs[Listed[i]])
             /\ err # "none" => err = "ConnectionError" /\ calls # <<>>
             /\ \A id \in StoreIds :
                   IF id \in reached
                   THEN IsConnected(builder'.objs[id])
                   ELSE builder'.objs[id] = builder.objs[id]]_vars

\* connect() has returned normally on a Builder with a source and a target
\* that are two Stores
C11_Witness ==
    /\ builder.op = "connect"
    /\ builder.err = "none"
    /\ \E i \in 1..Len(builder.sources), j \in 1..Len(builder.targets) :
          /\ builder.sources[i] # builder.targets[j]
          /\ IsConnected(builder.objs[builder.sources[i]])
          /\ IsConnected(builder.objs[builder.targets[j]])

\* the Store objects the Builder lists
ListedIds == { Listed[i] : i \in 1..Len(Listed) }

\* the iterables that can be closed
Closable(cursor) == cursor.kind \in {"generator", "Cursor"}

(* C12: Builder.finalize(cursor) returns normally whatever the Stores and  *)
(* the cursor are.  After it every listed Store that had an open client    *)
(* has it closed, also when a Store without a client (never connected, or  *)
(* not database-backed) is listed before it; a Store without a client, and *)
(* a Store the Builder does not list, is left as it was.  A cursor passed  *)
(* in that has a close operation is closed, wherever the iteration stands; *)
(* an absent cursor or one without close (a list) is left alone.           *)
C12_FinalizeReleases ==
    [][builder'.op = "finalize" =>
         /\ builder'.err = "none"
         /\ \A id \in StoreIds :
               LET s == builder.objs[id]
               IN  builder'.objs[id] =
                      IF id \in ListedIds /\ s.client # "none"
                      THEN [s EXCEPT !.client = "closed"]
                      ELSE s
         /\ \A i \in 1..Len(Listed) : builder'.objs[Listed[i]].client # "open"
         /\ builder'.cursor =
               IF builder'.passed /\ Closable(builder.cursor)
               THEN [builder.cursor EXCEPT !.closed = TRUE]
               ELSE builder.cursor]_vars

\* finalize(cursor) has closed a cursor the runner had not exhausted, and the
\* client of a Store listed after a Store that has none
C12_Witness ==
    /\ builder.op = "finalize"
    /\ builder.passed
    /\ Closable(builder.cursor)
    /\ builder.cursor.pos < builder.cursor.size
    /\ builder.cursor.closed
    /\ \E i, j \in 1..Len(Listed) :
          /\ i < j
          /\ builder.objs[Listed[i]].client = "none"
          /\ builder.objs[Listed[j]].client = "closed"

====
